---- MODULE Spec2Model ----
(***************************************************************************)
(* Bulk index build: BtreeBasedBulkAccessMethod (insert / commit) with the *)
(* external sorter it feeds and the bottom-up tree builder it drives.      *)
(*                                                                         *)
(* A key is a natural number (its value also stands for its byte size), a  *)
(* location (DiskLoc) a natural number, an entry the std::pair of the two. *)
(* Three instances of the access method are fed the same calls; they       *)
(* differ only in the sorter's MaxMemoryUsageBytes (1 byte: a run is       *)
(* spilled on every add; a few entries; the 100 MB of the constructor).    *)
(***************************************************************************)
EXTENDS Integers, Sequences, FiniteSets, TLC

\* Number of insert calls of one build.
MaxDocs == 3

\* Stands for the 1000000 of kMaxDupsToStore, scaled so that a build of
\* MaxDocs documents can exceed it.
DupsCap == 1

Keys == {1, 2}
Locs == 1..MaxDocs

\* The key sets getKeys can yield for one document (BSONObjSet: no repeats).
KeySets == SUBSET Keys

\* Statuses addKey may return besides OK and DuplicateKey.
FatalCodes == {"InternalError", "BadValue"}

\* SortOptions().MaxMemoryUsageBytes(...)
kMaxMemoryUsageBytes == 100 * 1024 * 1024
Ceilings == {1, 4, kMaxMemoryUsageBytes}

kMaxDupsToStore == DupsCap

VARIABLES
    descUnique,     \* descriptor()->unique()
    descDropDups,   \* descriptor()->dropDups()
    ordering,       \* Ordering::make(descriptor->keyPattern()): 1 ascending, -1 descending
    version,        \* descriptor->version(): 0 or 1
    ignoreUnique,   \* shouldIgnoreUniqueIndex(descriptor), as read by commit
    inDBRepair,     \* the global inDBRepair, as read by commit
    mayInterrupt,   \* commit's argument mayInterrupt
    killPending,    \* the operation was asked to stop (what an interruption check sees)
    commitCalls,    \* the number of calls of commit made so far
    cmpArgs,        \* the entries a comparator is applied to
    cmpOut,         \* ... and what it answered
    metaData,       \* the catalog entry's metadata document, as stored under _metaDataKey
    succeeded,      \* the index names indexBuildSuccess was called for
    lastCall,       \* the last catalog operation called, and what it returned
    putCount,       \* the number of writes of the metadata document
    metaLock,       \* _metaDataLock: the thread holding it, or "free"
    threads,        \* per thread: where it is in its catalog call, the call, its local MetaData
    serial,         \* the MetaData the updates written so far give when applied one after another
    history,        \* every value serial has had
    docs,           \* the insert calls made so far: <<[keys, loc], ...>>
    bulk            \* bulk[c]: the instance whose sorter has ceiling c

descVars == <<descUnique, descDropDups, ordering, version>>

buildVars == <<descVars, ignoreUnique, inDBRepair, mayInterrupt, killPending, commitCalls,
               docs, bulk>>

cmpVars == <<cmpArgs, cmpOut>>

conVars == <<metaLock, threads, serial, history>>

catVars == <<metaData, succeeded, lastCall, putCount, conVars>>

vars == <<buildVars, cmpVars, catVars>>

----------------------------------------------------------------------------
(* Comparison for the external sorter *)

Sign(x) == IF x < 0 THEN -1 ELSE IF x > 0 THEN 1 ELSE 0

\* BSONObj::woCompare(r, ordering, false): key comparison under the ordering.
woCompare(l, r, o) == o * Sign(l - r)

\* oldCompare(l, r, ordering): the key comparison of version 0 indexes.
oldCompare(l, r, o) == o * Sign(l - r)

\* DiskLoc::compare
DiskLocCompare(l, r) == Sign(l - r)

\* The comparison without its tie-break by location.
CompareNoTieBreak(l, r) == woCompare(l.first, r.first, ordering)

\* BtreeExternalSortComparison::operator()
Compare(l, r) ==
    LET x == IF version = 1 THEN woCompare(l.first, r.first, ordering)
                            ELSE oldCompare(l.first, r.first, ordering)
    IN  IF x # 0 THEN x ELSE DiskLocCompare(l.second, r.second)

----------------------------------------------------------------------------
(* External sort spool *)

\* Estimated memory of one buffered entry.
MemUsage(d) == d.first + 1

RECURSIVE InsertSorted(_, _)
InsertSorted(d, s) ==
    IF s = <<>> THEN <<d>>
    ELSE IF Compare(d, Head(s)) < 0 THEN <<d>> \o s
    ELSE <<Head(s)>> \o InsertSorted(d, Tail(s))

\* Sort of the in-memory buffer by the comparator.
RECURSIVE SortData(_)
SortData(s) ==
    IF s = <<>> THEN <<>>
    ELSE InsertSorted(s[Len(s)], SortData(SubSeq(s, 1, Len(s) - 1)))

\* A spill that writes the buffer as it stands.
SpillNoSort(st) ==
    [st EXCEPT !.buf = <<>>, !.mem = 0, !.runs = Append(@, st.buf)]

\* Spill: the buffer, sorted, becomes a new run; the buffer is cleared.
Spill(st) ==
    [st EXCEPT !.buf = <<>>, !.mem = 0, !.runs = Append(@, SortData(st.buf))]

\* Sorter::add(key, loc) under ceiling maxMem.
SorterAdd(st, d, maxMem) ==
    LET grown == [st EXCEPT !.buf = Append(@, d), !.mem = @ + MemUsage(d)]
    IN  IF grown.mem > maxMem THEN Spill(grown) ELSE grown

\* The index of the run whose head is least (the first such run).
MinRun(runs) ==
    CHOOSE i \in 1..Len(runs) :
        /\ runs[i] # <<>>
        /\ \A j \in 1..Len(runs) :
              runs[j] # <<>> =>
                 \/ Compare(runs[i][1], runs[j][1]) < 0
                 \/ (Compare(runs[i][1], runs[j][1]) = 0 /\ i <= j)

\* k-way merge of sorted runs into one ascending sequence.
RECURSIVE MergeRuns(_)
MergeRuns(runs) ==
    IF \A i \in 1..Len(runs) : runs[i] = <<>> THEN <<>>
    ELSE LET i == MinRun(runs)
         IN  <<runs[i][1]>> \o MergeRuns([runs EXCEPT ![i] = Tail(@)])

RECURSIVE Concat(_)
Concat(runs) == IF runs = <<>> THEN <<>> ELSE Head(runs) \o Concat(Tail(runs))

\* A done() that chains the runs instead of merging them.
MergeByConcat(st) ==
    IF st.runs = <<>> THEN SortData(st.buf)
    ELSE Concat(IF st.buf = <<>> THEN st.runs ELSE Spill(st).runs)

\* Sorter::done(): the sorted buffer when nothing was spilled, else the merge
\* of the runs and of the residual buffer.
SorterDone(st) ==
    IF st.runs = <<>> THEN SortData(st.buf)
    ELSE MergeRuns(IF st.buf = <<>> THEN st.runs ELSE Spill(st).runs)

EmptySorter == [buf |-> <<>>, mem |-> 0, runs |-> <<>>]

\* The run files done() hands to its iterator: none when nothing was spilled,
\* else every run, the residual buffer's run included.
DoneFiles(st) ==
    IF st.runs = <<>> THEN 0
    ELSE Len(IF st.buf = <<>> THEN st.runs ELSE Spill(st).runs)

----------------------------------------------------------------------------
(* Bottom-up tree builder *)

\* getBulkBuilder(txn, dupsAllowed)
NewBuilder(dupsAllowed, keyMax) ==
    [dupsAllowed |-> dupsAllowed, keyMax |-> keyMax, keys |-> <<>>, committed |-> FALSE]

NoBuilder == NewBuilder(FALSE, 0)

\* addKey(key, loc): [status, builder]. fault is what the structure layer
\* answers for this call when it fails for a reason of its own.
AddKey(b, d, fault) ==
    IF fault # "OK" THEN [status |-> fault, builder |-> b]
    ELSE IF d.first > b.keyMax THEN [status |-> "OK", builder |-> b]
    ELSE IF /\ ~b.dupsAllowed
            /\ b.keys # <<>>
            /\ b.keys[Len(b.keys)].first = d.first
         THEN [status |-> "DuplicateKey", builder |-> b]
    ELSE [status |-> "OK", builder |-> [b EXCEPT !.keys = Append(@, d)]]

\* commit(mayInterrupt): the number of keys in the structure.
BuilderCommit(b) == [b EXCEPT !.committed = TRUE]

\* commit(mayInterrupt) checks for interruption only when allowed to.
BuilderCommitInterrupted(may, kill) == may /\ kill

----------------------------------------------------------------------------
(* BtreeBasedBulkAccessMethod *)

\* The keys of a BSONObjSet in the order its iterator yields them.
RECURSIVE KeysInOrder(_)
KeysInOrder(S) ==
    IF S = {} THEN <<>>
    ELSE LET k == CHOOSE x \in S : \A y \in S : x <= y
         IN  <<k>> \o KeysInOrder(S \ {k})

\* DiskLoc(): the null DiskLoc, file number a = -1 and offset 0.
NullLoc == [a |-> -1, ofs |-> 0]

\* IndexMetaData(spec, false, DiskLoc(), false): the entry prepareForIndexBuild adds.
NewIndexMetaData == [ready |-> FALSE, head |-> NullLoc, multikey |-> FALSE]

\* The constructor: counters at zero, flag false, an empty sorter.
NewBulk ==
    [docsInserted |-> 0,
     keysInserted |-> 0,
     isMultiKey   |-> FALSE,
     sorter       |-> EmptySorter,
     pc           |-> "Building",
     catalog      |-> NewIndexMetaData,   \* the catalog entry of the index being built
     dupsAllowed  |-> FALSE,     \* commit's locals ...
     dropDups     |-> FALSE,
     iter         |-> <<>>,      \* what the sorter's iterator has yet to yield
     mergedRuns   |-> 0,         \* the number of spilled runs the iterator merges
     builder      |-> NoBuilder,
     dupsToDrop   |-> {},
     status       |-> "OK",      \* the status of the last addKey
     pmHits       |-> 0,
     pmFinished   |-> 0,
     keysCommit   |-> 0,
     warned       |-> FALSE,
     ret          |-> "none",    \* what commit returned
     fed          |-> <<>>,      \* the entries handed to addKey, in order
     tmpFiles     |-> 0,         \* the run files of this sorter under dbpath/_tmp
     doneCalls    |-> 0]         \* the number of calls of _sorter->done()

\* The flag following the last document alone.
MultiKeyLastDocOnly(flag, keys) == Cardinality(keys) > 1

\* _isMultiKey = _isMultiKey || (keys.size() > 1)
MultiKeyUpdate(flag, keys) == flag \/ (Cardinality(keys) > 1)

\* for each key of the set: _sorter->add(key, loc)
RECURSIVE AddAll(_, _, _, _)
AddAll(st, ks, loc, maxMem) ==
    IF ks = <<>> THEN st
    ELSE AddAll(SorterAdd(st, [first |-> Head(ks), second |-> loc], maxMem),
                Tail(ks), loc, maxMem)

\* An insert that refuses to act once commit has been called.
InsertOpGuarded(p, keys, loc, maxMem) ==
    IF p.pc # "Building" THEN p
    ELSE LET st == AddAll(p.sorter, KeysInOrder(keys), loc, maxMem)
         IN  [p EXCEPT !.isMultiKey   = MultiKeyUpdate(@, keys),
                       !.sorter       = st,
                       !.tmpFiles     = @ + (Len(st.runs) - Len(p.sorter.runs)),
                       !.keysInserted = @ + Cardinality(keys),
                       !.docsInserted = @ + 1]

\* insert(txn, obj, loc, options, numInserted), keys = getKeys(obj)
InsertOp(p, keys, loc, maxMem) ==
    LET st == AddAll(p.sorter, KeysInOrder(keys), loc, maxMem)
    IN  [p EXCEPT !.isMultiKey   = MultiKeyUpdate(@, keys),
                  !.sorter       = st,
                  !.tmpFiles     = @ + (Len(st.runs) - Len(p.sorter.runs)),
                  !.keysInserted = @ + Cardinality(keys),
                  !.docsInserted = @ + 1]

\* dupsAllowed without the replication coordinator's say.
DupsAllowedNonUniqueOnly(isUnique, ignore) == ~isUnique

\* bool dupsAllowed = !unique || shouldIgnoreUniqueIndex(descriptor)
DupsAllowed(isUnique, ignore) == ~isUnique \/ ignore

\* dropDups without the repair mode.
DropDupsOptionOnly(opt, repair) == opt

\* bool dropDups = descriptor->dropDups() || inDBRepair
DropDups(opt, repair) == opt \/ repair

\* setMultikey called whatever the flag.
SetMultikeyAlways(p) == [p.catalog EXCEPT !.multikey = TRUE]

\* setMultikey never called.
SetMultikeySkipped(p) == p.catalog

\* if (_isMultiKey) setMultikey(txn): the catalog entry afterwards
SetMultikeyIfMultiKey(p) ==
    IF p.isMultiKey THEN [p.catalog EXCEPT !.multikey = TRUE] ELSE p.catalog

\* commit, up to the loop: setMultikey, the two flags, _sorter->done(), the
\* progress meter, getBulkBuilder. dupsToDrop is the caller's (empty) set.
CommitBeginOp(p, ignore, repair, keyMax) ==
    LET da == DupsAllowed(descUnique, ignore)
    IN  [p EXCEPT !.catalog     = SetMultikeyIfMultiKey(p),
                  !.dupsAllowed = da,
                  !.dropDups    = DropDups(descDropDups, repair),
                  !.iter        = SorterDone(p.sorter),
                  !.mergedRuns  = Len(p.sorter.runs),
                  !.tmpFiles    = @ + (DoneFiles(p.sorter) - Len(p.sorter.runs)),
                  !.doneCalls   = @ + 1,
                  !.sorter      = EmptySorter,
                  !.pmHits      = 0,
                  !.builder     = NewBuilder(da, keyMax),
                  !.dupsToDrop  = {},
                  !.ret         = "none",
                  !.pc          = "Constructing"]

\* The size check passing one location too early.
TooManyDupsAtCap(dups) == Cardinality(dups) >= kMaxDupsToStore

\* dupsToDrop->size() > kMaxDupsToStore
TooManyDups(dups) == Cardinality(dups) > kMaxDupsToStore

\* An iterator held by a plain pointer: nothing is destroyed on the way out.
IteratorLeaked(p) == p

\* boost::scoped_ptr<BSONObjExternalSorter::Iterator> i: leaving commit
\* destroys the iterator, which removes the run files it reads.
IteratorDestroyed(p) == [p EXCEPT !.tmpFiles = 0]

\* A return that reports every failure as an internal error.
ReturnInternalError(p, st) ==
    [IteratorDestroyed(p) EXCEPT !.ret = "InternalError", !.pc = "Failed"]

\* return status: commit is left from inside the loop
ReturnFrom(p, st) == [IteratorDestroyed(p) EXCEPT !.ret = st, !.pc = "Failed"]

\* The location of the entry accepted earlier, recorded instead of d's.
RecordDupOfAccepted(p, d) ==
    p.dupsToDrop \cup {p.builder.keys[Len(p.builder.keys)].second}

\* dupsToDrop->insert(d.second)
RecordDup(p, d) == p.dupsToDrop \cup {d.second}

\* The duplicate handling with its else-if branch left out.
OnDuplicateKeyNoReject(p, d) ==
    IF p.dropDups
    THEN LET q == [p EXCEPT !.dupsToDrop = RecordDup(p, d)]
         IN  IF TooManyDups(q.dupsToDrop)
             THEN ReturnFrom(q, "InternalError")
             ELSE [q EXCEPT !.pmHits = @ + 1]
    ELSE [p EXCEPT !.pmHits = @ + 1]

\* The duplicate handling reporting the overflow with the status in hand.
OnDuplicateKeySameStatus(p, d) ==
    IF p.dropDups
    THEN LET q == [p EXCEPT !.dupsToDrop = RecordDup(p, d)]
         IN  IF TooManyDups(q.dupsToDrop)
             THEN ReturnFrom(q, p.status)
             ELSE [q EXCEPT !.pmHits = @ + 1]
    ELSE IF ~p.dupsAllowed THEN ReturnFrom(p, p.status)
    ELSE [p EXCEPT !.pmHits = @ + 1]

\* The duplicate handling skipping pm.hit() for a dropped duplicate.
OnDuplicateKeyNoHit(p, d) ==
    IF p.dropDups
    THEN LET q == [p EXCEPT !.dupsToDrop = RecordDup(p, d)]
         IN  IF TooManyDups(q.dupsToDrop)
             THEN ReturnFrom(q, "InternalError")
             ELSE q
    ELSE IF ~p.dupsAllowed THEN ReturnFrom(p, p.status)
    ELSE [p EXCEPT !.pmHits = @ + 1]

\* The handling of a DuplicateKey status: under dropDups the location is
\* recorded and the set's size checked; else the build fails unless
\* duplicates are allowed; then pm.hit().
OnDuplicateKey(p, d) ==
    IF p.dropDups
    THEN LET q == [p EXCEPT !.dupsToDrop = RecordDup(p, d)]
         IN  IF TooManyDups(q.dupsToDrop)
             THEN ReturnFrom(q, "InternalError")
             ELSE [q EXCEPT !.pmHits = @ + 1]
    ELSE IF ~p.dupsAllowed THEN ReturnFrom(p, p.status)
    ELSE [p EXCEPT !.pmHits = @ + 1]

\* A loop that checks for interruption before it takes the next entry.
CommitIterOpChecked(p, fault) ==
    IF mayInterrupt /\ killPending THEN ReturnFrom(p, "Interrupted")
    ELSE LET d == Head(p.iter)
             r == AddKey(p.builder, d, fault)
             q == [p EXCEPT !.iter    = Tail(@),
                            !.fed     = Append(@, d),
                            !.builder = r.builder,
                            !.status  = r.status]
         IN  IF r.status = "OK" THEN [q EXCEPT !.pmHits = @ + 1]
             ELSE IF r.status # "DuplicateKey" THEN ReturnFrom(q, r.status)
             ELSE OnDuplicateKey(q, d)

\* One iteration of while (i->more()): next(), addKey, the status handling,
\* pm.hit().
CommitIterOp(p, fault) ==
    LET d == Head(p.iter)
        r == AddKey(p.builder, d, fault)
        q == [p EXCEPT !.iter    = Tail(@),
                       !.fed     = Append(@, d),
                       !.builder = r.builder,
                       !.status  = r.status]
    IN  IF r.status = "OK" THEN [q EXCEPT !.pmHits = @ + 1]
        ELSE IF r.status # "DuplicateKey" THEN ReturnFrom(q, r.status)
        ELSE OnDuplicateKey(q, d)

\* The warning on every mismatch, whatever the mode.
MismatchWarningAlways(p, n) == n # p.keysInserted

\* !dropDups && (keysCommit != _keysInserted): the warning
MismatchWarning(p, n) == ~p.dropDups /\ n # p.keysInserted

\* After the loop: pm.finished(), builder->commit(mayInterrupt), the
\* warning, return Status::OK(). An interrupted builder->commit throws, and
\* commit is left by the exception.
CommitEndOp(p) ==
    LET n == Len(p.builder.keys)
        q == [p EXCEPT !.pmFinished = @ + 1]
    IN  IF BuilderCommitInterrupted(mayInterrupt, killPending)
        THEN [IteratorDestroyed(q) EXCEPT !.ret = "Interrupted", !.pc = "Failed"]
        ELSE [IteratorDestroyed(q) EXCEPT !.builder    = BuilderCommit(@),
                                          !.keysCommit = n,
                                          !.warned     = MismatchWarning(p, n),
                                          !.ret        = "OK",
                                          !.pc         = "Committed"]

----------------------------------------------------------------------------
(* RocksCollectionCatalogEntry *)

IndexNames == {"a", "b"}

\* The heads setIndexHead is called with.
Heads == {NullLoc, [a |-> 0, ofs |-> 1], [a |-> 1, ofs |-> 0]}

\* The number of writes of the metadata document explored.
MaxPuts == 4

\* IndexMetaData(spec->infoObj(), false, DiskLoc(), false)
IndexMetaData(name) ==
    [spec     |-> name,
     ready    |-> NewIndexMetaData.ready,
     head     |-> NewIndexMetaData.head,
     multikey |-> NewIndexMetaData.multikey]

\* MetaData::toBSON: the head is written as its two integers.
ToBSON(md) ==
    [ns      |-> md.ns,
     indexes |-> [i \in 1..Len(md.indexes) |->
                     [spec     |-> md.indexes[i].spec,
                      ready    |-> md.indexes[i].ready,
                      multikey |-> md.indexes[i].multikey,
                      head_a   |-> md.indexes[i].head.a,
                      head_b   |-> md.indexes[i].head.ofs]]]

\* A parse that reads the head's two integers the wrong way round.
ParseHeadSwapped(obj) ==
    [ns      |-> obj.ns,
     indexes |-> [i \in 1..Len(obj.indexes) |->
                     [spec     |-> obj.indexes[i].spec,
                      ready    |-> obj.indexes[i].ready,
                      head     |-> [a |-> obj.indexes[i].head_b, ofs |-> obj.indexes[i].head_a],
                      multikey |-> obj.indexes[i].multikey]]]

\* MetaData::parse, into a fresh MetaData
Parse(obj) ==
    [ns      |-> obj.ns,
     indexes |-> [i \in 1..Len(obj.indexes) |->
                     [spec     |-> obj.indexes[i].spec,
                      ready    |-> obj.indexes[i].ready,
                      head     |-> [a |-> obj.indexes[i].head_a, ofs |-> obj.indexes[i].head_b],
                      multikey |-> obj.indexes[i].multikey]]]

\* createMetaData: a MetaData with the namespace and no index
NewMetaData == [ns |-> "db.c", indexes |-> <<>>]

\* _getMetaData_inlock / _getMetaData: the stored document, parsed
GetMetaData == Parse(metaData)

\* MetaData::findIndexOffset: the first entry of that name, from 0; else -1
FindIndexOffset(md, name) ==
    LET hits == {i \in 1..Len(md.indexes) : md.indexes[i].spec = name}
    IN  IF hits = {} THEN -1
        ELSE (CHOOSE i \in hits : \A j \in hits : i <= j) - 1

\* getCompletedIndexCount
GetCompletedIndexCount ==
    Cardinality({i \in 1..Len(GetMetaData.indexes) : GetMetaData.indexes[i].ready})

\* A setIndexIsMultikey that writes and reports a change whatever is stored.
SetIndexIsMultikeyAlwaysWrites(md, name, mk) ==
    [ret |-> TRUE,
     md  |-> [md EXCEPT !.indexes[FindIndexOffset(md, name) + 1].multikey = mk]]

\* setIndexIsMultikey after the lookup: [ret, md], md being written when ret
SetIndexIsMultikeyOp(md, name, mk) ==
    LET i == FindIndexOffset(md, name) + 1
    IN  IF md.indexes[i].multikey = mk THEN [ret |-> FALSE, md |-> md]
        ELSE [ret |-> TRUE, md |-> [md EXCEPT !.indexes[i].multikey = mk]]

\* setIndexHead after the lookup
SetIndexHeadOp(md, name, newHead) ==
    [md EXCEPT !.indexes[FindIndexOffset(md, name) + 1].head = newHead]

\* An indexBuildSuccess that marks every entry of that name.
IndexBuildSuccessEveryEntry(md, name) ==
    [md EXCEPT !.indexes = [i \in 1..Len(md.indexes) |->
                               IF md.indexes[i].spec = name
                               THEN [md.indexes[i] EXCEPT !.ready = TRUE]
                               ELSE md.indexes[i]]]

\* indexBuildSuccess after the lookup
IndexBuildSuccessOp(md, name) ==
    [md EXCEPT !.indexes[FindIndexOffset(md, name) + 1].ready = TRUE]

\* prepareForIndexBuild
PrepareForIndexBuildOp(md, name) ==
    [md EXCEPT !.indexes = Append(@, IndexMetaData(name))]

NoCall == [op |-> "none", name |-> "", mk |-> FALSE, head |-> NullLoc, ret |-> FALSE]

Threads == {"t1", "t2", "t3"}

\* The number of catalog calls each thread makes.
MaxCalls == 1

\* A thread outside any catalog call.
IdleThread == [pc |-> "idle", call |-> NoCall, md |-> NewMetaData, n |-> 0]

\* No thread in a call, the lock free.
ThreadsIdle ==
    /\ metaLock = "free"
    /\ threads = [t \in Threads |-> IdleThread]

\* The catalog entry after createMetaData.
CatalogCreated ==
    /\ metaData = ToBSON(NewMetaData)
    /\ succeeded = {}
    /\ lastCall = NoCall
    /\ putCount = 0
    /\ ThreadsIdle
    /\ serial = NewMetaData
    /\ history = {NewMetaData}

\* _putMetaData_inlock(md)
PutMetaData(md) ==
    /\ metaData' = ToBSON(md)
    /\ putCount' = putCount + 1

\* The catalog operations. Each one holds _metaDataLock from its first
\* statement to its return. An operation on a name that has no entry stops
\* the process (invariant( offset >= 0 )): it is not called.
PrepareForIndexBuild ==
    /\ putCount < MaxPuts
    /\ \E name \in IndexNames :
          /\ PutMetaData(PrepareForIndexBuildOp(GetMetaData, name))
          /\ lastCall' = [NoCall EXCEPT !.op = "prepareForIndexBuild", !.name = name]
    /\ UNCHANGED <<buildVars, cmpVars, succeeded, conVars>>

SetIndexIsMultikey ==
    /\ putCount < MaxPuts
    /\ \E name \in IndexNames, mk \in BOOLEAN :
          /\ FindIndexOffset(GetMetaData, name) >= 0
          /\ LET r == SetIndexIsMultikeyOp(GetMetaData, name, mk)
             IN  /\ IF r.ret THEN PutMetaData(r.md)
                              ELSE UNCHANGED <<metaData, putCount>>
                 /\ lastCall' = [NoCall EXCEPT !.op = "setIndexIsMultikey",
                                               !.name = name, !.mk = mk, !.ret = r.ret]
    /\ UNCHANGED <<buildVars, cmpVars, succeeded, conVars>>

SetIndexHead ==
    /\ putCount < MaxPuts
    /\ \E name \in IndexNames, newHead \in Heads :
          /\ FindIndexOffset(GetMetaData, name) >= 0
          /\ PutMetaData(SetIndexHeadOp(GetMetaData, name, newHead))
          /\ lastCall' = [NoCall EXCEPT !.op = "setIndexHead", !.name = name,
                                        !.head = newHead]
    /\ UNCHANGED <<buildVars, cmpVars, succeeded, conVars>>

IndexBuildSuccess ==
    /\ putCount < MaxPuts
    /\ \E name \in IndexNames :
          /\ FindIndexOffset(GetMetaData, name) >= 0
          /\ PutMetaData(IndexBuildSuccessOp(GetMetaData, name))
          /\ succeeded' = succeeded \cup {name}
          /\ lastCall' = [NoCall EXCEPT !.op = "indexBuildSuccess", !.name = name]
    /\ UNCHANGED <<buildVars, cmpVars, conVars>>

NextCatalog == PrepareForIndexBuild \/ SetIndexIsMultikey \/ SetIndexHead \/ IndexBuildSuccess

----------------------------------------------------------------------------
(* RocksCollectionCatalogEntry, called from several threads *)

WriterOps == {"prepareForIndexBuild", "setIndexIsMultikey", "setIndexHead", "indexBuildSuccess"}

ReaderOps == {"isIndexReady", "isIndexMultikey", "getIndexHead"}

\* The calls a thread may make.
Calls ==
    {[NoCall EXCEPT !.op = op, !.name = name] :
        op \in {"prepareForIndexBuild", "indexBuildSuccess"} \cup ReaderOps,
        name \in IndexNames}
    \cup {[NoCall EXCEPT !.op = "setIndexIsMultikey", !.name = name, !.mk = mk] :
              name \in IndexNames, mk \in BOOLEAN}
    \cup {[NoCall EXCEPT !.op = "setIndexHead", !.name = name, !.head = h] :
              name \in IndexNames, h \in Heads}

\* A lock that excludes nobody.
LockNeverHeld(holder) == TRUE

\* boost::mutex::scoped_lock lk( _metaDataLock ) proceeds when no thread holds the lock
LockFree(holder) == holder = "free"

\* What a writer's call makes of the MetaData it read, and whether it writes.
ApplyCall(md, call) ==
    IF call.op = "prepareForIndexBuild"
    THEN [ret |-> TRUE, md |-> PrepareForIndexBuildOp(md, call.name)]
    ELSE IF call.op = "setIndexIsMultikey"
    THEN SetIndexIsMultikeyOp(md, call.name, call.mk)
    ELSE IF call.op = "setIndexHead"
    THEN [ret |-> TRUE, md |-> SetIndexHeadOp(md, call.name, call.head)]
    ELSE [ret |-> TRUE, md |-> IndexBuildSuccessOp(md, call.name)]

\* Does the call of thread t, with the MetaData it read, write?
Writes(t) ==
    /\ threads[t].call.op \in WriterOps
    /\ ApplyCall(threads[t].md, threads[t].call).ret

\* A thread enters a call and takes the lock. Calls are made for names that
\* have an entry (invariant( offset >= 0 ) stops the process otherwise).
TLock(t) ==
    /\ threads[t].pc = "idle"
    /\ threads[t].n < MaxCalls
    /\ LockFree(metaLock)
    /\ \E call \in Calls :
          /\ call.op # "prepareForIndexBuild" =>
                FindIndexOffset(GetMetaData, call.name) >= 0
          /\ threads' = [threads EXCEPT ![t].pc = "locked", ![t].call = call,
                                        ![t].n = @ + 1]
    /\ metaLock' = t
    /\ UNCHANGED <<buildVars, cmpVars, metaData, succeeded, lastCall, putCount,
                   serial, history>>

\* _getMetaData_inlock( &md )
TGet(t) ==
    /\ threads[t].pc = "locked"
    /\ threads' = [threads EXCEPT ![t].pc = "got", ![t].md = GetMetaData]
    /\ UNCHANGED <<buildVars, cmpVars, metaData, succeeded, lastCall, putCount,
                   metaLock, serial, history>>

\* the change to md, then _putMetaData_inlock( md )
TPut(t) ==
    /\ threads[t].pc = "got"
    /\ Writes(t)
    /\ PutMetaData(ApplyCall(threads[t].md, threads[t].call).md)
    /\ serial' = ApplyCall(serial, threads[t].call).md
    /\ history' = history \cup {serial'}
    /\ threads' = [threads EXCEPT ![t].pc = "put"]
    /\ UNCHANGED <<buildVars, cmpVars, succeeded, lastCall, metaLock>>

\* return: lk is destroyed and the lock released
TReturn(t) ==
    /\ \/ threads[t].pc = "put"
       \/ threads[t].pc = "got" /\ ~Writes(t)
    /\ threads' = [threads EXCEPT ![t].pc = "idle"]
    /\ metaLock' = "free"
    /\ UNCHANGED <<buildVars, cmpVars, metaData, succeeded, lastCall, putCount,
                   serial, history>>

NextConcurrent == \E t \in Threads : TLock(t) \/ TGet(t) \/ TPut(t) \/ TReturn(t)

----------------------------------------------------------------------------
(* The comparator on its own *)

Entries == [first : Keys, second : Locs]

CompareIdle == cmpArgs = <<>> /\ cmpOut = <<>>

\* BtreeExternalSortComparison::operator() applied to the pairs of three entries
ApplyCompare ==
    /\ cmpOut = <<>>
    /\ cmpOut' = <<Compare(cmpArgs[1], cmpArgs[2]), Compare(cmpArgs[2], cmpArgs[1]),
                   Compare(cmpArgs[2], cmpArgs[3]), Compare(cmpArgs[1], cmpArgs[3])>>
    /\ UNCHANGED <<buildVars, cmpArgs, catVars>>

NextCompare == ApplyCompare

----------------------------------------------------------------------------
(* The build *)

\* A structure layer whose size limit admits every key, or only key 1.
KeyMaxes == {1, 2}

UsedLocs == {docs[i].loc : i \in 1..Len(docs)}

InLoop(p) == p.pc = "Constructing" /\ p.iter # <<>>
AtLoopEnd(p) == p.pc = "Constructing" /\ p.iter = <<>>
Returned(p) == p.pc \in {"Committed", "Failed"}

\* The number of commit calls a caller that ignores the protocol makes.
MaxCommits == 2

\* Both index versions compare the keys of the model alike; the builds are
\* explored for version 1, the comparator for both.
Init ==
    /\ descUnique \in BOOLEAN
    /\ descDropDups \in BOOLEAN
    /\ ordering \in {1, -1}
    /\ version = 1
    /\ ignoreUnique = FALSE
    /\ inDBRepair = FALSE
    /\ mayInterrupt = FALSE
    /\ killPending = FALSE
    /\ commitCalls = 0
    /\ docs = <<>>
    /\ bulk = [c \in Ceilings |-> NewBulk]
    /\ CompareIdle
    /\ CatalogCreated

\* insert, called in the states pcs
InsertIn(pcs) ==
    /\ Len(docs) < MaxDocs
    /\ \A c \in Ceilings : bulk[c].pc \in pcs
    /\ \E keys \in KeySets, loc \in Locs \ UsedLocs :
          /\ docs' = Append(docs, [keys |-> keys, loc |-> loc])
          /\ bulk' = [c \in Ceilings |-> InsertOp(bulk[c], keys, loc, c)]
    /\ UNCHANGED <<descVars, ignoreUnique, inDBRepair, mayInterrupt, killPending,
                   commitCalls, cmpVars, catVars>>

\* commit(dupsToDrop, mayInterrupt), called in the states pcs with the
\* globals and the argument drawn from the given sets
CommitCall(pcs, ignores, repairs, keyMaxes, mays) ==
    /\ \A c \in Ceilings : bulk[c].pc \in pcs
    /\ commitCalls < MaxCommits
    /\ \E ignore \in ignores, repair \in repairs, keyMax \in keyMaxes, may \in mays :
          /\ ignoreUnique' = ignore
          /\ inDBRepair' = repair
          /\ mayInterrupt' = may
          /\ bulk' = [c \in Ceilings |-> CommitBeginOp(bulk[c], ignore, repair, keyMax)]
    /\ commitCalls' = commitCalls + 1
    /\ UNCHANGED <<descVars, killPending, docs, cmpVars, catVars>>

\* one iteration of the loop, addKey failing with one of faults or not at all
CommitLoopWith(faults) ==
    /\ \E c \in Ceilings : InLoop(bulk[c])
    /\ \E fault \in {"OK"} \cup faults :
          bulk' = [c \in Ceilings |->
                      IF InLoop(bulk[c]) THEN CommitIterOp(bulk[c], fault) ELSE bulk[c]]
    /\ UNCHANGED <<descVars, ignoreUnique, inDBRepair, mayInterrupt, killPending,
                   commitCalls, docs, cmpVars, catVars>>

Insert == InsertIn({"Building"})

CommitBegin == CommitCall({"Building"}, BOOLEAN, BOOLEAN, KeyMaxes, {FALSE})

CommitLoop == CommitLoopWith(FatalCodes)

CommitEnd ==
    /\ \E c \in Ceilings : AtLoopEnd(bulk[c])
    /\ bulk' = [c \in Ceilings |->
                   IF AtLoopEnd(bulk[c]) THEN CommitEndOp(bulk[c]) ELSE bulk[c]]
    /\ UNCHANGED <<descVars, ignoreUnique, inDBRepair, mayInterrupt, killPending,
                   commitCalls, docs, cmpVars, catVars>>

Next == Insert \/ CommitBegin \/ CommitLoop \/ CommitEnd

\* The build as its caller drives it: inserts, then one commit that is not
\* interrupted.
Spec == Init /\ [][Next]_vars

\* A caller that ignores the protocol: insert called after commit has
\* returned, and commit called again, with the globals and the structure
\* layer as the first call found them. addKey fails for no reason of its own.
InsertLate == InsertIn({"Committed", "Failed"})

CommitAgain ==
    CommitCall({"Committed", "Failed"}, {ignoreUnique}, {inDBRepair},
               {bulk[c].builder.keyMax : c \in Ceilings}, {FALSE})

CommitLoopNoFault == CommitLoopWith({})

NextMisuse ==
    Insert \/ CommitBegin \/ CommitLoopNoFault \/ CommitEnd \/ InsertLate \/ CommitAgain

SpecMisuse == Init /\ [][NextMisuse]_vars

\* A build whose commit may be called with mayInterrupt, and whose operation
\* may be asked to stop while commit runs. addKey fails for no reason of
\* its own.
CommitBeginMay == CommitCall({"Building"}, BOOLEAN, BOOLEAN, KeyMaxes, BOOLEAN)

RequestKill ==
    /\ ~killPending
    /\ \E c \in Ceilings : bulk[c].pc = "Constructing"
    /\ killPending' = TRUE
    /\ UNCHANGED <<descVars, ignoreUnique, inDBRepair, mayInterrupt, commitCalls,
                   docs, bulk, cmpVars, catVars>>

NextInterrupt == Insert \/ CommitBeginMay \/ CommitLoopNoFault \/ CommitEnd \/ RequestKill

SpecInterrupt == Init /\ [][NextInterrupt]_vars

\* A build before its first insert.
BuildIdle ==
    /\ ignoreUnique = FALSE
    /\ inDBRepair = FALSE
    /\ mayInterrupt = FALSE
    /\ killPending = FALSE
    /\ commitCalls = 0
    /\ docs = <<>>
    /\ bulk = [c \in Ceilings |-> NewBulk]

\* The comparator of an index of either version and ordering, given any
\* three entries.
InitCompare ==
    /\ descUnique = FALSE
    /\ descDropDups = FALSE
    /\ ordering \in {1, -1}
    /\ version \in {0, 1}
    /\ BuildIdle
    /\ cmpArgs \in [1..3 -> Entries]
    /\ cmpOut = <<>>
    /\ CatalogCreated

SpecCompare == InitCompare /\ [][NextCompare]_vars

\* The catalog entry under any sequence of its operations, one at a time.
SpecCatalog == Init /\ [][NextCatalog]_vars

\* The catalog entry of a collection with index "a" registered, called from
\* several threads at once.
InitConcurrent ==
    /\ descUnique = FALSE
    /\ descDropDups = FALSE
    /\ ordering = 1
    /\ version = 1
    /\ BuildIdle
    /\ CompareIdle
    /\ metaData = ToBSON(PrepareForIndexBuildOp(NewMetaData, "a"))
    /\ succeeded = {}
    /\ lastCall = NoCall
    /\ putCount = 1
    /\ ThreadsIdle
    /\ serial = PrepareForIndexBuildOp(NewMetaData, "a")
    /\ history = {NewMetaData, serial}

SpecConcurrent == InitConcurrent /\ [][NextConcurrent]_vars

----------------------------------------------------------------------------
(* Properties *)

Bulks == {bulk[c] : c \in Ceilings}

\* The (key, location) pairs the insert calls added to the spool.
AllEntries ==
    UNION {{[first |-> k, second |-> docs[i].loc] : k \in docs[i].keys} : i \in 1..Len(docs)}

SeqSet(s) == {s[i] : i \in 1..Len(s)}

\* The ordering contract, stated on its own: by key under the index's
\* ordering, ties by location.
EntryLeq(a, b) ==
    \/ ordering * a.first < ordering * b.first
    \/ (a.first = b.first /\ a.second <= b.second)

NonDecreasing(s) == \A i \in 1..(Len(s) - 1) : EntryLeq(s[i], s[i + 1])

UniqueEnforced == descUnique /\ ~ignoreUnique

\* addKey reported no failure of its own (nothing but OK or DuplicateKey).
NoOtherFailure(p) == p.status \notin FatalCodes

\* Every inserted document yields the single key k.
SameKeyDocs(k) == Len(docs) >= 1 /\ \A i \in 1..Len(docs) : docs[i].keys = {k}

\* Two inserted documents both yield key k.
Colliding(k) ==
    \E i, j \in 1..Len(docs) : i # j /\ k \in docs[i].keys /\ k \in docs[j].keys

C1_Case(p, k) ==
    /\ Returned(p)
    /\ UniqueEnforced /\ descDropDups
    /\ SameKeyDocs(k)
    /\ k <= p.builder.keyMax
    /\ NoOtherFailure(p)

C1_Outcome(p, k) ==
    /\ p.ret = "OK" /\ p.pc = "Committed"
    /\ Len(p.builder.keys) = 1
    /\ p.builder.keys[1].first = k
    /\ p.dupsToDrop \subseteq UsedLocs
    /\ Cardinality(p.dupsToDrop) = Len(docs) - 1
    /\ p.builder.keys[1].second \notin p.dupsToDrop

\* C1 as stated: unique index, uniqueness not ignored, drop-duplicates on, N >= 1
\* documents at distinct locations all yielding one key (which the builder
\* takes, addKey failing for no other reason): commit returns success, one
\* entry is accepted, N-1 locations are in the duplicate set, not the
\* accepted one. Fails once N-1 exceeds kMaxDupsToStore.
C1_DuplicateAccounting ==
    \A p \in Bulks, k \in Keys : C1_Case(p, k) => C1_Outcome(p, k)

\* C1 (amended): unique index, uniqueness not ignored, drop-duplicates on,
\* N >= 1 documents at distinct locations all yielding one key, with
\* N - 1 <= kMaxDupsToStore: commit returns success, exactly one entry with
\* that key is accepted by the builder, and the duplicate set holds exactly
\* N-1 locations, none of them the accepted entry's.
C1_DuplicateAccountingWithinCap ==
    \A p \in Bulks, k \in Keys :
        C1_Case(p, k) /\ Len(docs) - 1 <= kMaxDupsToStore => C1_Outcome(p, k)

C1_Witness ==
    \E p \in Bulks, k \in Keys :
        /\ C1_Case(p, k) /\ C1_Outcome(p, k)
        /\ Len(docs) >= 2 /\ Len(docs) - 1 <= kMaxDupsToStore

C2_Config == UniqueEnforced /\ ~descDropDups /\ ~inDBRepair

\* s ends with the first entry whose key equals its predecessor's, keys
\* beyond the builder's size limit aside (addKey skips them).
EndsAtFirstCollision(s, keyMax) ==
    /\ Len(s) >= 2
    /\ s[Len(s)].first = s[Len(s) - 1].first
    /\ \A i \in 1..(Len(s) - 2) : s[i].first = s[i + 1].first => s[i].first > keyMax

C2_Rejected(p) ==
    /\ p.ret = "DuplicateKey" /\ p.pc = "Failed"
    /\ EndsAtFirstCollision(p.fed, p.builder.keyMax)
    /\ p.dupsToDrop = {}
    /\ ~p.builder.committed

\* C2: unique index, uniqueness not ignored, no drop-duplicates, no repair:
\* the DuplicateKey status of addKey is what commit returns, at the first
\* colliding entry, with nothing fed after it, the duplicate set untouched
\* and the builder not committed; and two documents with a common key (one
\* the builder takes, addKey failing for no other reason) make commit end so.
C2_DuplicateRejection ==
    \A p \in Bulks :
        C2_Config /\ p.pc # "Building" =>
            /\ p.dupsToDrop = {}
            /\ (p.status = "DuplicateKey" => C2_Rejected(p))
            /\ (/\ Returned(p) /\ NoOtherFailure(p)
                /\ \E k \in Keys : Colliding(k) /\ k <= p.builder.keyMax
                => p.status = "DuplicateKey")

C2_Witness ==
    \E p \in Bulks :
        /\ C2_Config /\ C2_Rejected(p)
        /\ p.iter # <<>>
        /\ \E k \in Keys : Colliding(k)

C3_Config == ~descUnique \/ ignoreUnique

\* C3: non-unique index, or uniqueness ignored: the builder allows
\* duplicates, every entry is fed to addKey, commit returns success (unless
\* addKey fails for a reason of its own) and the duplicate set stays empty,
\* with drop-duplicates on or off.
C3_DuplicatesAccepted ==
    \A p \in Bulks :
        C3_Config /\ p.pc # "Building" =>
            /\ p.builder.dupsAllowed
            /\ p.dupsToDrop = {}
            /\ p.status # "DuplicateKey"
            /\ (p.pc = "Failed" => p.status \in FatalCodes)
            /\ (Returned(p) /\ NoOtherFailure(p) =>
                   /\ p.ret = "OK"
                   /\ Len(p.fed) = p.keysInserted
                   /\ SeqSet(p.fed) = AllEntries)

C3_Witness ==
    \E p \in Bulks :
        /\ descUnique /\ ignoreUnique /\ p.dropDups
        /\ p.ret = "OK"
        /\ \E k \in Keys : Colliding(k) /\ k <= p.builder.keyMax
        /\ Len(p.builder.keys) = Len(p.fed)

C4_Returned(p) ==
    /\ p.pc = "Failed"
    /\ p.ret = p.status
    /\ ~p.builder.committed

C4_Step(p, q) ==
    p.pc = "Constructing" /\ q.status \in FatalCodes =>
        /\ q.fed = Append(p.fed, Head(p.iter))
        /\ q.iter = Tail(p.iter)
        /\ q.dupsToDrop = p.dupsToDrop
        /\ q.builder = p.builder
        /\ C4_Returned(q)

\* C4: a status of addKey other than OK and DuplicateKey is returned by
\* commit as it is, at once, in every configuration: the failing call fed
\* one entry, once; the duplicate set and the builder are as before the call;
\* the builder is not committed.
C4_FatalPropagates ==
    /\ [](\A p \in Bulks : p.status \in FatalCodes => C4_Returned(p))
    /\ [][\A c \in Ceilings : C4_Step(bulk[c], bulk'[c])]_vars

C4_Witness ==
    \E p \in Bulks :
        /\ p.status = "BadValue" /\ p.ret = "BadValue"
        /\ p.dropDups /\ ~p.dupsAllowed
        /\ p.dupsToDrop # {}
        /\ p.iter # <<>>

\* C5: in drop-duplicates mode (the option, or a repair), a duplicate set
\* grown beyond kMaxDupsToStore ends commit with InternalError and without
\* the builder's commit; commit never returns DuplicateKey; and short of
\* that size commit fails only when addKey fails for a reason of its own.
C5_TooManyDups ==
    \A p \in Bulks :
        (descDropDups \/ inDBRepair) /\ p.pc # "Building" =>
            /\ (Cardinality(p.dupsToDrop) > kMaxDupsToStore =>
                   /\ p.pc = "Failed" /\ p.ret = "InternalError"
                   /\ ~p.builder.committed)
            /\ p.ret # "DuplicateKey"
            /\ (p.pc = "Failed" /\ NoOtherFailure(p) =>
                   Cardinality(p.dupsToDrop) > kMaxDupsToStore)

C5_Witness ==
    \E p \in Bulks :
        /\ inDBRepair /\ ~descDropDups
        /\ Cardinality(p.dupsToDrop) > kMaxDupsToStore
        /\ p.ret = "InternalError" /\ p.status = "DuplicateKey"

SomeDocMultiKey == \E i \in 1..Len(docs) : Cardinality(docs[i].keys) > 1

\* C6: the multikey flag is true exactly when some document inserted so far
\* yielded more than one key, in every state, during the inserts and through
\* commit: false at first, true from the first such insert on.
C6_MultikeyMonotonic ==
    \A p \in Bulks : p.isMultiKey = SomeDocMultiKey

C6_Witness ==
    \E p \in Bulks :
        /\ Returned(p) /\ p.isMultiKey
        /\ Len(docs) >= 3
        /\ Cardinality(docs[1].keys) > 1
        /\ \A i \in 2..Len(docs) : Cardinality(docs[i].keys) <= 1

\* C7: from the start of commit on, on every path out of it, the catalog
\* entry's multikey flag is set if the instance's flag is true, and
\* setMultikey was not called if it is false.
C7_MultikeyRecorded ==
    \A p \in Bulks :
        /\ p.pc # "Building" => p.catalog.multikey = p.isMultiKey
        /\ p.pc = "Building" => ~p.catalog.multikey

C7_Witness ==
    \E p \in Bulks :
        /\ p.pc = "Failed" /\ p.ret = "DuplicateKey"
        /\ p.isMultiKey /\ p.catalog.multikey

\* C8 as stated: the catalog entry of the index is as prepareForIndexBuild
\* left it until the instance is Committed; a build that ends Failed never
\* modified the multikey flag.
C8_CatalogUntouchedBeforeCommitted ==
    \A p \in Bulks : p.pc # "Committed" => p.catalog = NewIndexMetaData

\* C8 (amended): the instance never sets the head or the ready flag; the
\* only change it makes to the catalog entry is setMultikey, in the first
\* step of commit, when its multikey flag is true, whether commit then
\* succeeds or fails.
C8_OnlySetMultikeyAtCommitStart ==
    [][\A c \in Ceilings :
          bulk'[c].catalog # bulk[c].catalog =>
              /\ bulk[c].pc = "Building" /\ bulk'[c].pc = "Constructing"
              /\ bulk[c].isMultiKey
              /\ bulk'[c].catalog = [bulk[c].catalog EXCEPT !.multikey = TRUE]]_vars

C8_Witness ==
    \E p \in Bulks :
        /\ p.pc = "Failed"
        /\ p.catalog = [NewIndexMetaData EXCEPT !.multikey = TRUE]

\* C9: the entries fed to addKey are entries added to the spool, each once,
\* in non-decreasing order under the ordering contract, a prefix of that
\* order when a failure stops the loop and all of them when commit succeeds,
\* whatever the insertion order and the number of spilled runs.
C9_SortedFeed ==
    \A p \in Bulks :
        /\ NonDecreasing(p.fed)
        /\ SeqSet(p.fed) \subseteq AllEntries
        /\ Cardinality(SeqSet(p.fed)) = Len(p.fed)
        /\ \A e \in AllEntries \ SeqSet(p.fed) : \A i \in 1..Len(p.fed) : EntryLeq(p.fed[i], e)
        /\ p.pc = "Constructing" => SeqSet(p.fed \o p.iter) = AllEntries
        /\ p.pc = "Committed" => SeqSet(p.fed) = AllEntries /\ Len(p.fed) = p.keysInserted

C9_Witness ==
    \E p \in Bulks :
        /\ p.pc = "Committed" /\ p.mergedRuns >= 2
        /\ Len(p.fed) >= 4
        /\ p.fed[1].second = docs[Len(docs)].loc
        /\ p.fed[1].first = p.fed[2].first

\* What a build hands on: the feed to the builder, what the builder holds,
\* the flag, the duplicate set, the committed count, commit's status.
Observed(p) ==
    [fed |-> p.fed, iter |-> p.iter, keys |-> p.builder.keys,
     isMultiKey |-> p.isMultiKey, dupsToDrop |-> p.dupsToDrop,
     keysCommit |-> p.keysCommit, ret |-> p.ret, pc |-> p.pc]

\* C10: fed the same insert calls, the build whose spool spills on every add
\* (and the one that spills now and then) and the build that never spills
\* hand the same sequence to the builder and end with the same flag,
\* duplicate set, committed count and status.
C10_SpillTransparent ==
    \A c \in Ceilings : Observed(bulk[c]) = Observed(bulk[kMaxMemoryUsageBytes])

C10_Witness ==
    /\ bulk[1].pc = "Committed"
    /\ bulk[1].mergedRuns >= 4
    /\ bulk[4].mergedRuns \in 1..3
    /\ bulk[kMaxMemoryUsageBytes].mergedRuns = 0
    /\ bulk[1].fed[1].second = docs[Len(docs)].loc
    /\ bulk[1].dupsToDrop # {}

C12_ProgressInEveryExecution ==
    \A p \in Bulks : Returned(p) => p.pmHits = Len(p.fed) /\ p.pmFinished = 1

\* C12, amended: while the loop runs hit() has been called once for each
\* entry taken from the stream, dropped duplicates included, and finished()
\* not yet; a commit that returns success has called hit() once per entry
\* and finished() once, after the last hit(); a commit that returns from
\* inside the loop has called hit() for every entry but the one it returns
\* on, and never finished().
C12_ProgressPerEntry ==
    \A p \in Bulks :
        /\ p.pc = "Constructing" => p.pmHits = Len(p.fed) /\ p.pmFinished = 0
        /\ p.pc = "Committed" =>
              p.pmHits = Len(p.fed) /\ p.pmHits = p.keysInserted /\ p.pmFinished = 1
        /\ p.pc = "Failed" => p.pmHits = Len(p.fed) - 1 /\ p.pmFinished = 0

\* A successful commit that dropped a duplicate, and counted it.
C12_Witness ==
    \E p \in Bulks :
        /\ p.pc = "Committed" /\ p.dupsToDrop # {}
        /\ p.pmHits = 3 /\ p.pmFinished = 1

\* The entries a sorter holds, buffered or spilled.
SorterEntries(st) ==
    SeqSet(st.buf) \cup UNION {SeqSet(st.runs[i]) : i \in 1..Len(st.runs)}

\* C13 as stated: the spool of an instance is finalized at most once, however
\* the instance is called.
C13_FinalizedOncePerInstance == \A p \in Bulks : p.doneCalls <= 1

PcSteps ==
    {<<"Building", "Constructing">>, <<"Constructing", "Committed">>,
     <<"Constructing", "Failed">>, <<"Committed", "Constructing">>,
     <<"Failed", "Constructing">>}

\* C13, amended: within one call of commit the instance moves forward only,
\* Building or a returned state -> Constructing -> Committed or Failed, and
\* done() is called exactly once per call of commit, at its start; the
\* instance itself refuses no call: an insert after commit has returned
\* still adds its keys to the spool and leaves the state as it was, and a
\* second commit finalizes the spool again and starts a new builder.
C13_ForwardWithinEachCommit ==
    [][\A c \in Ceilings :
          LET p == bulk[c]
              q == bulk'[c]
          IN  /\ q.doneCalls = commitCalls'
              /\ p.pc # q.pc => <<p.pc, q.pc>> \in PcSteps
              /\ q.doneCalls # p.doneCalls =>
                    /\ q.doneCalls = p.doneCalls + 1
                    /\ p.pc # "Constructing" /\ q.pc = "Constructing"
                    /\ q.builder.keys = <<>> /\ q.sorter = EmptySorter
              /\ (Returned(p) /\ q.pc = "Constructing") => q.doneCalls = p.doneCalls + 1
              /\ (Returned(p) /\ docs' # docs) =>
                    /\ q.pc = p.pc /\ q.fed = p.fed
                    /\ q.keysInserted =
                          p.keysInserted + Cardinality(docs'[Len(docs')].keys)
                    /\ SorterEntries(q.sorter) =
                          SorterEntries(p.sorter) \cup
                             {[first |-> k, second |-> docs'[Len(docs')].loc] :
                                  k \in docs'[Len(docs')].keys}]_vars

\* A second commit has returned, having fed the keys of a late insert to
\* its builder.
C13_Witness ==
    \E p \in Bulks :
        /\ commitCalls = 2 /\ p.doneCalls = 2 /\ p.pc = "Committed"
        /\ p.builder.keys # <<>>
        /\ Len(p.fed) = p.keysInserted

\* C14 as stated: with interruption allowed, once the operation has been
\* asked to stop the loop feeds no further entry to addKey.
C14_ObservedBetweenKeys ==
    [][\A c \in Ceilings :
          (mayInterrupt /\ killPending /\ InLoop(bulk[c])) =>
              bulk'[c].fed = bulk[c].fed]_vars

\* What holds of an interruption in every state.
C14_State ==
    \A p \in Bulks :
        /\ p.ret = "Interrupted" =>
              /\ mayInterrupt /\ killPending
              /\ p.pc = "Failed" /\ p.iter = <<>>
              /\ Len(p.fed) = p.keysInserted
              /\ ~p.builder.committed
        /\ p.pc = "Committed" => ~(mayInterrupt /\ killPending) /\ p.builder.committed
        /\ ~p.catalog.ready

\* C14, amended: the loop itself has no cancellation point: a stop requested
\* while it runs does not keep the next entry from being fed to addKey, and
\* every remaining entry is fed. The stop is observed only by the tree
\* builder's commit, after the loop, and only when commit was called with
\* interruption allowed: the build then ends without the builder's commit
\* succeeding and without the index marked ready. When interruption is not
\* allowed, commit is never cancelled.
C14_ObservedAtBuilderCommit ==
    /\ []C14_State
    /\ [][\A c \in Ceilings :
             (killPending /\ InLoop(bulk[c]) /\ bulk'[c] # bulk[c]) =>
                 /\ bulk'[c].fed = Append(bulk[c].fed, Head(bulk[c].iter))
                 /\ bulk'[c].ret # "Interrupted"]_vars

\* A commit called with interruption allowed was interrupted, after every
\* entry had been fed and the builder had taken keys.
C14_Witness ==
    \E p \in Bulks :
        /\ p.ret = "Interrupted" /\ Len(p.fed) >= 2 /\ p.builder.keys # <<>>

\* C15 as stated: a commit that succeeded without dropping any key as a
\* duplicate, and whose committed count differs from the number of keys
\* inserted, has logged the warning.
C15_WarnedWheneverNothingDropped ==
    \A p \in Bulks :
        (p.pc = "Committed" /\ p.dupsToDrop = {} /\ p.keysCommit # p.keysInserted) =>
            p.warned

\* C15, amended: a commit whose loop finished returns success and logs the
\* mismatch warning exactly when drop-duplicates mode is off (neither the
\* index option nor a repair) and the committed count differs from the
\* number of keys inserted; in drop-duplicates mode no warning is logged,
\* even when no key was dropped. No commit fails after the builder's commit:
\* a mismatch never makes it fail.
C15_WarnedOutsideDropDups ==
    \A p \in Bulks :
        /\ p.pc = "Committed" =>
              /\ p.ret = "OK"
              /\ p.warned <=>
                    (~(descDropDups \/ inDBRepair) /\ p.keysCommit # p.keysInserted)
        /\ p.pc = "Failed" => ~p.builder.committed /\ p.pmFinished = 0

\* Outside drop-duplicates mode a key was left out for its size: warned.
C15_Witness ==
    \E p \in Bulks :
        /\ p.pc = "Committed" /\ ~p.dropDups
        /\ p.keysCommit < p.keysInserted /\ p.dupsToDrop = {}
        /\ p.warned /\ p.ret = "OK"

\* D1 with key a, D2 with key b, D3 with key a, inserted in this order into
\* a unique index with drop-duplicates on; the builder takes every key and
\* addKey fails for no reason of its own.
C16_Case(p) ==
    /\ UniqueEnforced /\ descDropDups
    /\ Len(docs) = 3
    /\ \E a \in Keys : \E b \in Keys \ {a} :
          docs[1].keys = {a} /\ docs[2].keys = {b} /\ docs[3].keys = {a}
    /\ Returned(p) /\ NoOtherFailure(p)
    /\ p.builder.keyMax >= 2

C16_Rest(p) == p.pc = "Committed" /\ p.keysCommit = 2 /\ ~p.isMultiKey /\ ~p.catalog.multikey

\* C16 as stated: whatever the locations, the duplicate set is D3's location.
C16_DropsLaterInserted ==
    \A p \in Bulks : C16_Case(p) => C16_Rest(p) /\ p.dupsToDrop = {docs[3].loc}

\* C16, amended: for every assignment of pairwise distinct locations the
\* committed count is 2, the multikey flag false, and the duplicate set
\* holds exactly the greater of the locations of D1 and D3: D3's when D3's
\* location is the greater, D1's otherwise.
C16_DropsGreaterLocation ==
    \A p \in Bulks :
        C16_Case(p) =>
            /\ C16_Rest(p)
            /\ p.dupsToDrop =
                  {IF docs[3].loc > docs[1].loc THEN docs[3].loc ELSE docs[1].loc}

\* D3 got the smaller location, and D1 was dropped.
C16_Witness ==
    \E p \in Bulks :
        /\ C16_Case(p) /\ p.pc = "Committed"
        /\ docs[3].loc < docs[1].loc
        /\ p.dupsToDrop = {docs[1].loc}

\* C18: in every state of commit, the state in which it returns the
\* too-many-duplicates error included, the duplicate set holds at most
\* kMaxDupsToStore locations.
C18_DupSetWithinBound ==
    \A p \in Bulks : Cardinality(p.dupsToDrop) <= kMaxDupsToStore

\* The answers of the comparator for the entries a, b, c it was given.
C17_Order ==
    cmpOut # <<>> =>
        LET a  == cmpArgs[1]
            b  == cmpArgs[2]
            c  == cmpArgs[3]
            ab == cmpOut[1]
            ba == cmpOut[2]
            bc == cmpOut[3]
            ac == cmpOut[4]
        IN  /\ ab = 0 <=> (a.first = b.first /\ a.second = b.second)
            /\ Sign(ab) = -Sign(ba)
            /\ (ab < 0 /\ bc < 0) => ac < 0
            /\ (ab <= 0 /\ bc <= 0) => ac <= 0
            /\ a.first = b.first => Sign(ab) = Sign(a.second - b.second)
            /\ a.first # b.first => Sign(ab) = Sign(ordering * (a.first - b.first))

\* C17: the comparator is a strict total order on entries: it answers 0 only
\* for entries of equal key and equal location, its sign is antisymmetric,
\* the order is transitive, entries of equal key are ordered by location
\* alone; and the index version and ordering it compares under never change
\* after construction.
C17_StrictTotalOrder ==
    /\ []C17_Order
    /\ [][version' = version /\ ordering' = ordering]_vars

\* Compared under version 0: two entries of equal key at distinct locations,
\* and a third entry of another key.
C17_Witness ==
    /\ cmpOut # <<>> /\ version = 0
    /\ cmpArgs[1].first = cmpArgs[2].first /\ cmpArgs[1].second > cmpArgs[2].second
    /\ cmpArgs[3].first # cmpArgs[1].first
    /\ cmpOut[1] > 0 /\ cmpOut[2] < 0

\* The entries of the stored document, as the getters read them.
StoredIndexes == GetMetaData.indexes

\* The stored entries but for one field of the first entry named name.
ExceptField(ixs, name, field, val) ==
    LET i == FindIndexOffset([ns |-> "", indexes |-> ixs], name) + 1
    IN  [ixs EXCEPT ![i] = [f \in DOMAIN ixs[i] |-> IF f = field THEN val ELSE ixs[i][f]]]

\* What one catalog operation does to the stored entries.
C19_Frame ==
    LET old  == StoredIndexes
        new  == StoredIndexes'
        call == lastCall'
    IN  /\ call.op = "prepareForIndexBuild" =>
              new = Append(old, [spec |-> call.name, ready |-> FALSE,
                                 head |-> NullLoc, multikey |-> FALSE])
        /\ call.op = "setIndexHead" =>
              new = ExceptField(old, call.name, "head", call.head)
        /\ call.op = "setIndexIsMultikey" =>
              new = ExceptField(old, call.name, "multikey", call.mk)
        /\ call.op = "indexBuildSuccess" =>
              new = ExceptField(old, call.name, "ready", TRUE)
        /\ \A i \in 1..Len(old) :
              /\ old[i].ready => new[i].ready
              /\ (~old[i].ready /\ new[i].ready) =>
                    call.op = "indexBuildSuccess" /\ call.name = old[i].spec

\* C19: an index registered by prepareForIndexBuild starts not ready, not
\* multikey and with a null head; its ready flag becomes true only through
\* indexBuildSuccess for its name and never returns to false; each catalog
\* operation changes only its own field of the first entry of the name it
\* is given (prepareForIndexBuild only appends one entry) and leaves every
\* other entry and field as it was; and getCompletedIndexCount equals the
\* number of index names indexBuildSuccess was called for.
C19_FrameAndCount ==
    /\ [](GetCompletedIndexCount = Cardinality(succeeded))
    /\ [][C19_Frame]_vars

\* Two indexes registered, one of them with a head set and marked ready,
\* the other one as registered.
C19_Witness ==
    /\ Len(StoredIndexes) = 2
    /\ StoredIndexes[1].ready /\ StoredIndexes[1].head # NullLoc
    /\ StoredIndexes[1].head.a # StoredIndexes[1].head.ofs
    /\ StoredIndexes[2] = [spec |-> "b", ready |-> FALSE, head |-> NullLoc,
                            multikey |-> FALSE]
    /\ GetCompletedIndexCount = 1 /\ succeeded = {"a"}
    /\ lastCall.op = "indexBuildSuccess"

\* C20 as stated: a multikey flag stored as true is not made false by any
\* catalog operation.
C20_MultikeyNeverUnset ==
    [][\A i \in 1..Len(StoredIndexes) :
          StoredIndexes[i].multikey => StoredIndexes'[i].multikey]_vars

\* C20, amended: a multikey flag stored as true is made false again by
\* setIndexIsMultikey( name, false ) on its index, and by no other
\* operation; setIndexIsMultikey returns true exactly when it changed the
\* stored flag, and writes nothing when the stored flag already has the
\* requested value.
C20_UnsetOnlyOnRequest ==
    [][LET old  == StoredIndexes
           new  == StoredIndexes'
           call == lastCall'
           i    == FindIndexOffset(GetMetaData, call.name) + 1
       IN  /\ \A j \in 1..Len(old) :
                 (old[j].multikey /\ ~new[j].multikey) =>
                     /\ call.op = "setIndexIsMultikey" /\ ~call.mk /\ call.ret
                     /\ j = i
           /\ call.op = "setIndexIsMultikey" =>
                 /\ call.ret <=> (old[i].multikey # call.mk)
                 /\ call.ret <=> (new # old)
                 /\ new[i].multikey = call.mk
                 /\ ~call.ret => metaData' = metaData /\ putCount' = putCount
                 /\ call.ret => putCount' = putCount + 1]_vars

\* setIndexIsMultikey( "a", false ) has unset the flag of a ready index and
\* returned true.
C20_Witness ==
    /\ lastCall.op = "setIndexIsMultikey" /\ lastCall.name = "a"
    /\ ~lastCall.mk /\ lastCall.ret
    /\ Len(StoredIndexes) >= 1 /\ StoredIndexes[1].spec = "a"
    /\ ~StoredIndexes[1].multikey /\ StoredIndexes[1].ready

\* C21: with several threads calling the setters and the getters of one
\* catalog entry at once, each call reads, changes and writes the stored
\* metadata while it holds the metadata lock; so in every interleaving the
\* stored metadata is what the updates written so far give when applied one
\* after another (none is lost), and what a call has read, a getter's
\* included, is the metadata as it stood before or after a whole update.
C21_AtomicUpdates ==
    /\ GetMetaData = serial
    /\ \A t \in Threads :
          /\ threads[t].pc # "idle" => metaLock = t
          /\ threads[t].pc = "got" =>
                threads[t].md = serial /\ threads[t].md \in history
          /\ threads[t].pc = "put" =>
                serial = ApplyCall(threads[t].md, threads[t].call).md

\* Three threads have each made a call on index "a": it was marked ready,
\* marked multikey and given a head, and the stored entry shows all three.
C21_Witness ==
    /\ \A t \in Threads : threads[t].pc = "idle" /\ threads[t].n = MaxCalls
    /\ {threads[t].call.op : t \in Threads} =
          {"indexBuildSuccess", "setIndexIsMultikey", "setIndexHead"}
    /\ putCount = 4
    /\ StoredIndexes[1].ready /\ StoredIndexes[1].multikey
    /\ StoredIndexes[1].head # NullLoc

====
